---- MODULE Spec2Model ----
(***************************************************************************)
(* The name registries of fife-rpg: components (fife_rpg.components.base)  *)
(* and systems (fife_rpg.systems.base) register their classes under        *)
(* string names, propagate the name along the class hierarchy and          *)
(* register declared dependencies recursively.                             *)
(***************************************************************************)
EXTENDS Integers, Sequences, FiniteSets, TLC

(* ---------------------------------------------------------------------- *)
(* Classes                                                                 *)
(* ---------------------------------------------------------------------- *)

\* Concrete component classes (subclasses of fife_rpg.components.base.Base).
ComponentTypes == {"CA", "CB", "CC"}

\* Concrete system classes (subclasses of fife_rpg.systems.base.Base).
SystemTypes == {"SA", "SB"}

Types == ComponentTypes \cup SystemTypes

\* The two Base classes and what they derive from (bGrease classes, object).
ComponentBase == "components.Base"
SystemBase == "systems.Base"
Foreign == {"bGrease.Component", "bGrease.System", "object"}
Classes == Types \cup {ComponentBase, SystemBase} \cup Foreign

\* Python's None, and the mark of a class whose __dict__ has no
\* _Base__registered_as entry of its own (the lookup then continues along
\* the method resolution order).
None == "None"
Unset == "<unset>"

\* The default name each concrete class gives its register() override.
default_name ==
    [t \in Types |->
        CASE t = "CA" -> "ca" [] t = "CB" -> "cb" [] t = "CC" -> "cc"
          [] t = "SA" -> "sa" [] t = "SB" -> "sb"]

ComponentNames == {default_name[t] : t \in ComponentTypes}
SystemNames == {default_name[t] : t \in SystemTypes}
Names == ComponentNames \cup SystemNames

\* Depth at which the interpreter gives up a recursion (RecursionError).
MaxDepth == 6

(* ---------------------------------------------------------------------- *)
(* Class declarations the program may be run with                          *)
(* ---------------------------------------------------------------------- *)

\* class X(Base): every class derives from its Base directly.
FlatBases ==
    [CA |-> ComponentBase, CB |-> ComponentBase, CC |-> ComponentBase,
     SA |-> SystemBase, SB |-> SystemBase]

\* class CA(Base), class CB(CA), class CC(CB).
ChainBases == [FlatBases EXCEPT !.CB = "CA", !.CC = "CB"]

\* class CA(Base), class CB(CA), class CC(CA).
SiblingBases == [FlatBases EXCEPT !.CB = "CA", !.CC = "CA"]

\* dependencies = []: the class attribute as Base declares it.
NoDependencies ==
    [CA |-> <<>>, CB |-> <<>>, CC |-> <<>>, SA |-> <<>>, SB |-> <<>>]

\* The declarations (base class and dependencies list of every class) of
\* the programs that register components only.
ComponentDeclarations ==
    { \* a chain of classes, a chain of dependencies CA -> CB -> CC
      [bases |-> ChainBases,
       dependencies |-> [NoDependencies EXCEPT !.CA = <<"CB">>, !.CB = <<"CC">>]],
      \* sibling classes, CB depends on its sibling
      [bases |-> SiblingBases,
       dependencies |-> [NoDependencies EXCEPT !.CB = <<"CC">>]],
      \* a dependency cycle CA -> CB -> CA
      [bases |-> FlatBases,
       dependencies |-> [NoDependencies EXCEPT !.CA = <<"CB">>, !.CB = <<"CA">>]],
      \* two dependencies in one list
      [bases |-> FlatBases,
       dependencies |-> [NoDependencies EXCEPT !.CB = <<"CA", "CC">>]] }

\* The declarations of the programs that register systems and components.
Declarations ==
    { \* a system on a system and a component, components in a chain
      [bases |-> FlatBases,
       dependencies |-> [NoDependencies EXCEPT
                            !.CA = <<"CB">>, !.CB = <<"CC">>,
                            !.SA = <<"SB", "CA">>, !.SB = <<"CC">>]],
      \* dependency cycles SA -> SB -> SA and CA -> CB -> CA
      [bases |-> FlatBases,
       dependencies |-> [NoDependencies EXCEPT
                            !.CA = <<"CB">>, !.CB = <<"CA">>,
                            !.SA = <<"SB">>, !.SB = <<"SA">>]],
      \* class SB(SA); SB depends on SA and on a component
      [bases |-> [FlatBases EXCEPT !.SB = "SA"],
       dependencies |-> [NoDependencies EXCEPT
                            !.SA = <<"CA">>, !.SB = <<"SA", "CB">>]],
      \* a system that lists a component and itself
      [bases |-> FlatBases,
       dependencies |-> [NoDependencies EXCEPT !.SA = <<"CA", "SA">>]] }

VARIABLES
    bases,          \* class -> its base class
    dependencies,   \* class -> its dependencies list
    attr,           \* class -> own _Base__registered_as (or Unset)
    components,     \* ComponentManager: name -> registered class (or None)
    systems,        \* SystemManager: name -> registered class (or None)
    op,             \* the last call made: "register" or "unregister"
    ret,            \* what the last call returned (or raised)
    released        \* history: the <<class, name>> bindings removed by
                    \* unregister calls since the last register call

VARIABLES
    primary_statistics,    \* the engine's catalog: name -> view name
    secondary_statistics,  \* the engine's catalog: name -> influences
    entities,              \* entity -> its CharacterStatistics data (or None)
    result,                \* what the last call on the engine returned or raised
    calls                  \* the number of increase, decrease and step calls made

regVars == <<bases, dependencies, attr, components, systems, op, ret, released>>
statVars == <<primary_statistics, secondary_statistics, entities, result, calls>>
vars == <<regVars, statVars>>

(* ---------------------------------------------------------------------- *)
(* Class hierarchy                                                         *)
(* ---------------------------------------------------------------------- *)

\* The Base class of the registry a class belongs to.
BaseOf(cls) == IF cls \in ComponentTypes THEN ComponentBase ELSE SystemBase

RECURSIVE getmro(_)
\* inspect.getmro(cls): cls, its base classes in order, ..., object.
getmro(cls) ==
    IF cls = "object" THEN <<"object">>
    ELSE IF cls = ComponentBase THEN <<cls, "bGrease.Component", "object">>
    ELSE IF cls = SystemBase THEN <<cls, "bGrease.System", "object">>
    ELSE IF cls \in Foreign THEN <<cls, "object">>
    ELSE <<cls>> \o getmro(bases[cls])

\* issubclass(sub_cls, base)
issubclass(sub_cls, base) ==
    LET mro == getmro(sub_cls) IN \E i \in 1..Len(mro) : mro[i] = base

RECURSIVE lookup(_, _, _)
lookup(a, mro, i) ==
    IF i > Len(mro) THEN None
    ELSE IF a[mro[i]] # Unset THEN a[mro[i]]
    ELSE lookup(a, mro, i + 1)

\* A property that reads the class's own attribute only.
registered_as_own(a, cls) == IF a[cls] # Unset THEN a[cls] ELSE None

\* cls.registered_as: the class property reads cls.__registered_as, an
\* ordinary attribute lookup along the method resolution order.
registered_as(a, cls) == lookup(a, getmro(cls), 1)

\* Truth value of a registered_as value ("if not dependency.registered_as").
Truthy(name) == name # None /\ name # ""

(* ---------------------------------------------------------------------- *)
(* ComponentManager and SystemManager: the name -> object stores           *)
(* ---------------------------------------------------------------------- *)

EmptyRegistry(names) == [n \in names |-> None]

\* register_component / register_system accept the name when the name is
\* not bound and the class is not bound under another name; otherwise they
\* raise AlreadyRegisteredError(name, kind).
can_register(registry, name, cls) ==
    /\ registry[name] = None
    /\ \A n \in DOMAIN registry : registry[n] # cls

manager_register(registry, name, cls) == [registry EXCEPT ![name] = cls]

\* unregister_component / unregister_system remove a bound name; for any
\* other name (None included) they raise NotRegisteredError.
can_unregister(registry, name) ==
    name \in DOMAIN registry /\ registry[name] # None

manager_unregister(registry, name) == [registry EXCEPT ![name] = None]

\* The name the registry resolves to a class, or None (NotFound).
resolve(registry, name) == registry[name]

(* ---------------------------------------------------------------------- *)
(* Base.register                                                           *)
(* ---------------------------------------------------------------------- *)

\* A loop that leaves out the "sub_cls is Base" test.
propagated_with_base(cls) ==
    LET mro == getmro(cls)
    IN  { sub_cls \in { mro[i] : i \in 1..Len(mro) } :
            sub_cls # cls /\ issubclass(sub_cls, BaseOf(cls)) }

\* The classes of inspect.getmro(cls) that the auto_register loop writes:
\* not cls itself, not Base, and a subclass of Base.
propagated(cls) ==
    LET mro == getmro(cls)
    IN  { sub_cls \in { mro[i] : i \in 1..Len(mro) } :
            /\ ~(sub_cls = cls \/ sub_cls = BaseOf(cls))
            /\ issubclass(sub_cls, BaseOf(cls)) }

\* cls.__registered_as = name, and the same on the propagated classes
\* when auto_register is set.
set_registered_as(a, cls, name, auto) ==
    LET written == IF auto THEN {cls} \cup propagated(cls) ELSE {cls}
    IN  [c \in Classes |-> IF c \in written THEN name ELSE a[c]]

\* A test that takes every dependency for registered.
never_needs_registration(a, dependency) == FALSE

\* "if not dependency.registered_as": the dependency is to be registered.
needs_registration(a, dependency) == ~Truthy(registered_as(a, dependency))

\* A call that also gives up when the nested call has returned False.
raised_or_failed(r) == r.ret \in {"RecursionError", "False"}

\* The call ended with an exception that register does not catch.
Raised(r) == r.ret = "RecursionError"

RECURSIVE register(_, _, _, _, _)
RECURSIVE register_dependencies(_, _, _, _)

\* A register that assigns the class attributes before the manager call.
component_register_assign_first(st, cls, name, auto, depth) ==
    LET bound == [st EXCEPT !.attr = set_registered_as(@, cls, name, auto)]
    IN  IF ~can_register(st.components, name, cls)
        THEN [st |-> bound, ret |-> "False"]
        ELSE LET r == register_dependencies(
                          [bound EXCEPT !.components = manager_register(@, name, cls)],
                          dependencies[cls], 1, depth)
             IN  IF Raised(r) THEN r ELSE [st |-> r.st, ret |-> "True"]

\* A register whose except branch reports success.
component_register_returns_true(st, cls, name, auto, depth) ==
    IF ~can_register(st.components, name, cls)
    THEN [st |-> st, ret |-> "True"]
    ELSE LET bound == [st EXCEPT
                          !.components = manager_register(@, name, cls),
                          !.attr = set_registered_as(@, cls, name, auto)]
             r == register_dependencies(bound, dependencies[cls], 1, depth)
         IN  IF Raised(r) THEN r ELSE [st |-> r.st, ret |-> "True"]

\* components.Base.register(cls, name, auto_register): the manager call
\* first, then the class attributes, then the dependencies.
component_register(st, cls, name, auto, depth) ==
    IF ~can_register(st.components, name, cls)
    THEN [st |-> st, ret |-> "False"]
    ELSE LET bound == [st EXCEPT
                          !.components = manager_register(@, name, cls),
                          !.attr = set_registered_as(@, cls, name, auto)]
             r == register_dependencies(bound, dependencies[cls], 1, depth)
         IN  IF Raised(r) THEN r ELSE [st |-> r.st, ret |-> "True"]

\* A system register in the order of the component register: the manager
\* call and the class attribute first, then the dependencies.
system_register_bind_first(st, cls, name, depth) ==
    IF ~can_register(st.systems, name, cls)
    THEN [st |-> st, ret |-> "False"]
    ELSE LET bound == [st EXCEPT
                          !.systems = manager_register(@, name, cls),
                          !.attr = set_registered_as(@, cls, name, FALSE)]
             r == register_dependencies(bound, dependencies[cls], 1, depth)
         IN  IF Raised(r) THEN r ELSE [st |-> r.st, ret |-> "True"]

\* systems.Base.register(cls, name): the dependencies first, then the
\* manager call and the class attribute.
system_register(st, cls, name, depth) ==
    LET r == register_dependencies(st, dependencies[cls], 1, depth)
    IN  IF Raised(r) THEN r
        ELSE IF ~can_register(r.st.systems, name, cls)
        THEN [st |-> r.st, ret |-> "False"]
        ELSE [st |-> [r.st EXCEPT
                         !.systems = manager_register(@, name, cls),
                         !.attr = set_registered_as(@, cls, name, FALSE)],
              ret |-> "True"]

\* cls.register(name, auto_register) at recursion depth `depth`.
register(st, cls, name, auto, depth) ==
    IF depth > MaxDepth THEN [st |-> st, ret |-> "RecursionError"]
    ELSE IF cls \in ComponentTypes
    THEN component_register(st, cls, name, auto, depth)
    ELSE system_register(st, cls, name, depth)

\* "for dependency in cls.dependencies: if not dependency.registered_as:
\* dependency.register()", from the i-th dependency on. The value the
\* nested call returns is dropped; an exception it lets through ends the
\* loop.
register_dependencies(st, deps, i, depth) ==
    IF i > Len(deps) THEN [st |-> st, ret |-> "done"]
    ELSE IF ~needs_registration(st.attr, deps[i])
    THEN register_dependencies(st, deps, i + 1, depth)
    ELSE LET r == register(st, deps[i], default_name[deps[i]], TRUE, depth + 1)
         IN  IF Raised(r) THEN r
             ELSE register_dependencies(r.st, deps, i + 1, depth)

(* ---------------------------------------------------------------------- *)
(* Base.unregister                                                         *)
(* ---------------------------------------------------------------------- *)

\* An unregister that clears the propagated classes only.
clear_propagated_only(a, cls, auto) ==
    LET written == IF auto THEN propagated(cls) ELSE {}
    IN  [c \in Classes |-> IF c \in written THEN None ELSE a[c]]

\* cls.__registered_as = None, and the same on the propagated classes
\* when auto_unregister is set.
clear_registered_as(a, cls, auto) ==
    LET written == IF auto THEN {cls} \cup propagated(cls) ELSE {cls}
    IN  [c \in Classes |-> IF c \in written THEN None ELSE a[c]]

\* An unregister that removes the class's default name from the manager.
component_unregister_default_name(st, cls, auto) ==
    IF ~can_unregister(st.components, registered_as(st.attr, cls))
    THEN [st |-> st, ret |-> "False"]
    ELSE [st |-> [st EXCEPT
                     !.components = manager_unregister(@, default_name[cls]),
                     !.attr = clear_registered_as(@, cls, auto)],
          ret |-> "True"]

\* components.Base.unregister(cls, auto_unregister)
component_unregister(st, cls, auto) ==
    IF ~can_unregister(st.components, registered_as(st.attr, cls))
    THEN [st |-> st, ret |-> "False"]
    ELSE [st |-> [st EXCEPT
                     !.components = manager_unregister(@, registered_as(st.attr, cls)),
                     !.attr = clear_registered_as(@, cls, auto)],
          ret |-> "True"]

\* systems.Base.unregister(cls): no return statement on the success path.
system_unregister(st, cls) ==
    IF ~can_unregister(st.systems, registered_as(st.attr, cls))
    THEN [st |-> st, ret |-> "False"]
    ELSE [st |-> [st EXCEPT
                     !.systems = manager_unregister(@, registered_as(st.attr, cls)),
                     !.attr = clear_registered_as(@, cls, FALSE)],
          ret |-> "None"]

(* ---------------------------------------------------------------------- *)
(* The program                                                             *)
(* ---------------------------------------------------------------------- *)

\* The registry state a call starts from.
State == [attr |-> attr, components |-> components, systems |-> systems]

\* No class is registered: only the two Base classes carry the attribute.
Unregistered(decls) ==
    /\ \E d \in decls : bases = d.bases /\ dependencies = d.dependencies
    /\ attr = [c \in Classes |->
                 IF c \in {ComponentBase, SystemBase} THEN None ELSE Unset]
    /\ components = EmptyRegistry(ComponentNames)
    /\ systems = EmptyRegistry(SystemNames)
    /\ op = "none"
    /\ ret = "None"
    /\ released = {}
    /\ primary_statistics = <<>>
    /\ secondary_statistics = <<>>
    /\ entities = <<>>
    /\ result = "None"
    /\ calls = 0

Init == Unregistered(Declarations)

InitComponents == Unregistered(ComponentDeclarations)

\* The registry a class belongs to, and the names it binds.
RegistryOf(st, cls) == IF cls \in ComponentTypes THEN st.components ELSE st.systems
NamesOf(cls) == IF cls \in ComponentTypes THEN ComponentNames ELSE SystemNames

\* cls is registered under name: the name resolves to cls and cls reports it.
RegisteredUnder(st, cls, name) ==
    registered_as(st.attr, cls) = name /\ resolve(RegistryOf(st, cls), name) = cls

\* The binding of cls that an unregister call of cls that did not return
\* False has removed.
Removed(st, cls, returned) ==
    { <<cls, name>> : name \in { n \in NamesOf(cls) :
                                    returned # "False" /\ RegisteredUnder(st, cls, n) } }

\* A call of cls.register(name, auto_register) on a component class.
RegisterComponent(cls, name, auto) ==
    LET r == register(State, cls, name, auto, 1)
    IN  /\ attr' = r.st.attr
        /\ components' = r.st.components
        /\ systems' = r.st.systems
        /\ op' = "register"
        /\ ret' = r.ret
        /\ UNCHANGED <<bases, dependencies>>

\* A call of cls.register(name) on a system class.
RegisterSystem(cls, name) ==
    LET r == register(State, cls, name, FALSE, 1)
    IN  /\ attr' = r.st.attr
        /\ components' = r.st.components
        /\ systems' = r.st.systems
        /\ op' = "register"
        /\ ret' = r.ret
        /\ UNCHANGED <<bases, dependencies>>

\* A call of cls.unregister(auto_unregister) on a component class.
UnregisterComponent(cls, auto) ==
    LET r == component_unregister(State, cls, auto)
    IN  /\ attr' = r.st.attr
        /\ components' = r.st.components
        /\ systems' = r.st.systems
        /\ op' = "unregister"
        /\ ret' = r.ret
        /\ UNCHANGED <<bases, dependencies>>

\* A call of cls.unregister() on a system class.
UnregisterSystem(cls) ==
    LET r == system_unregister(State, cls)
    IN  /\ attr' = r.st.attr
        /\ components' = r.st.components
        /\ systems' = r.st.systems
        /\ op' = "unregister"
        /\ ret' = r.ret
        /\ UNCHANGED <<bases, dependencies>>

NextComponents ==
    \/ \E cls \in ComponentTypes, name \in ComponentNames, auto \in BOOLEAN :
          RegisterComponent(cls, name, auto) /\ UNCHANGED <<released, statVars>>
    \/ \E cls \in ComponentTypes, auto \in BOOLEAN :
          UnregisterComponent(cls, auto) /\ UNCHANGED <<released, statVars>>

Next ==
    \/ \E cls \in ComponentTypes, name \in ComponentNames, auto \in BOOLEAN :
          RegisterComponent(cls, name, auto) /\ UNCHANGED <<released, statVars>>
    \/ \E cls \in SystemTypes, name \in SystemNames :
          RegisterSystem(cls, name) /\ UNCHANGED <<released, statVars>>
    \/ \E cls \in ComponentTypes, auto \in BOOLEAN :
          UnregisterComponent(cls, auto) /\ UNCHANGED <<released, statVars>>
    \/ \E cls \in SystemTypes :
          UnregisterSystem(cls) /\ UNCHANGED <<released, statVars>>

\* The same calls, with the history of the bindings removed since the last
\* register call.
NextHistory ==
    \/ \E cls \in ComponentTypes, name \in ComponentNames, auto \in BOOLEAN :
          RegisterComponent(cls, name, auto) /\ released' = {} /\ UNCHANGED statVars
    \/ \E cls \in SystemTypes, name \in SystemNames :
          RegisterSystem(cls, name) /\ released' = {} /\ UNCHANGED statVars
    \/ \E cls \in ComponentTypes, auto \in BOOLEAN :
          /\ UnregisterComponent(cls, auto)
          /\ released' = released \cup Removed(State, cls, ret')
          /\ UNCHANGED statVars
    \/ \E cls \in SystemTypes :
          /\ UnregisterSystem(cls)
          /\ released' = released \cup Removed(State, cls, ret')
          /\ UNCHANGED statVars

\* Programs that register and unregister systems and components.
Spec == Init /\ [][Next]_vars

\* Programs that register and unregister components of a class hierarchy.
SpecComponents == InitComponents /\ [][NextComponents]_vars

\* The programs of Spec, with the history of removed bindings.
SpecHistory == Init /\ [][NextHistory]_vars

(* ---------------------------------------------------------------------- *)
(* Vocabulary of the properties                                            *)
(* ---------------------------------------------------------------------- *)

\* The registered name of every concrete class.
RegisteredNames(st) == [t \in Types |-> registered_as(st.attr, t)]

\* The concrete classes whose own attribute differs between two states.
Rebound(st, after) == { t \in Types : after.attr[t] # st.attr[t] }

\* The classes a dependency walk from cls can reach.
RECURSIVE Reachable(_, _)
Reachable(seen, frontier) ==
    IF frontier \subseteq seen THEN seen
    ELSE Reachable(seen \cup frontier,
                   UNION { { dependencies[t][i] : i \in 1..Len(dependencies[t]) } :
                             t \in frontier })
DependenciesOf(cls) == { dependencies[cls][i] : i \in 1..Len(dependencies[cls]) }
TransitiveDependencies(cls) == Reachable({}, DependenciesOf(cls))

(* ---------------------------------------------------------------------- *)
(* C1                                                                      *)
(* ---------------------------------------------------------------------- *)

NamesBoundTo(st, cls) == { n \in NamesOf(cls) : resolve(RegistryOf(st, cls), n) = cls }

\* C2: every class is bound to at most one name of its registry, and a
\* register of a class that is bound, under another name that is free,
\* returns False and leaves the names bound to the class as they were.
C2_OneNamePerType ==
    /\ \A t \in Types : Cardinality(NamesBoundTo(State, t)) <= 1
    /\ \A cls \in Types : \A name \in NamesOf(cls) : \A auto \in BOOLEAN :
          (resolve(RegistryOf(State, cls), name) = None /\ NamesBoundTo(State, cls) # {}) =>
              LET r == register(State, cls, name, auto, 1)
              IN  r.ret = "False" /\ NamesBoundTo(r.st, cls) = NamesBoundTo(State, cls)

\* A register has just returned False in a state where a component and a
\* system are bound while another name of their registry is free, so that
\* a register of either under the free name is rejected.
C2_Witness ==
    /\ op = "register" /\ ret = "False"
    /\ \E cls \in ComponentTypes, name \in ComponentNames :
          /\ components[name] = None /\ NamesBoundTo(State, cls) # {}
          /\ register(State, cls, name, TRUE, 1).ret = "False"
    /\ \E cls \in SystemTypes, name \in SystemNames :
          /\ systems[name] = None /\ NamesBoundTo(State, cls) # {}
          /\ register(State, cls, name, FALSE, 1).ret = "False"

(* ---------------------------------------------------------------------- *)
(* C3                                                                      *)
(* ---------------------------------------------------------------------- *)

\* C3 as stated: from a successful unregister of a class registered under
\* a name up to the next register, the name resolves to nothing, the class
\* has no registered name, and a register of the class under the name
\* succeeds.
C3_AsStated ==
    \A b \in released :
        /\ resolve(RegistryOf(State, b[1]), b[2]) = None
        /\ ~Truthy(registered_as(attr, b[1]))
        /\ \A auto \in BOOLEAN : register(State, b[1], b[2], auto, 1).ret = "True"


\* C3, amended: from a successful unregister of a class registered under
\* a name up to the next register, the name resolves to nothing and the
\* class has no registered name. A register of a component class under the
\* name then succeeds. A register of a system class under the name
\* succeeds unless the dependencies it registers first take the name (a
\* dependency whose default name it is) or overflow the recursion.
C3_ReleasedNameIsFree ==
    \A b \in released :
        /\ resolve(RegistryOf(State, b[1]), b[2]) = None
        /\ ~Truthy(registered_as(attr, b[1]))
        /\ \A auto \in BOOLEAN :
              LET r == register(State, b[1], b[2], auto, 1)
              IN  \/ r.ret = "True" /\ resolve(RegistryOf(r.st, b[1]), b[2]) = b[1]
                  \/ /\ b[1] \in SystemTypes
                     /\ r.ret = "False"
                     /\ \E d \in TransitiveDependencies(b[1]) \cap SystemTypes :
                           /\ default_name[d] = b[2]
                           /\ needs_registration(attr, d)
                           /\ resolve(r.st.systems, b[2]) = d
                  \/ b[1] \in SystemTypes /\ r.ret = "RecursionError"

\* An unregister has just removed the bindings of a component and of a
\* system, and both can be registered under their names again.
C3_Witness ==
    /\ op = "unregister"
    /\ \E b \in released : b[1] \in ComponentTypes /\ register(State, b[1], b[2], TRUE, 1).ret = "True"
    /\ \E b \in released : b[1] \in SystemTypes /\ register(State, b[1], b[2], FALSE, 1).ret = "True"

(* ---------------------------------------------------------------------- *)
(* C4                                                                      *)
(* ---------------------------------------------------------------------- *)

\* The classes a call has bound in their registry.
NewlyBound(st, after) == { t \in Types : NamesBoundTo(after, t) # NamesBoundTo(st, t) }

\* The registration of d collides: its default name is bound to another
\* class, or d itself is bound while it reports no name.
Collides(st, d) ==
    \/ resolve(RegistryOf(st, d), default_name[d]) \notin {None, d}
    \/ NamesBoundTo(st, d) # {}

\* The method resolution order of t passes through a class that the
\* registration of x writes.
SharesHierarchy(t, x) ==
    \E c \in {x} \cup propagated(x) : issubclass(t, c)

Ancestors(cls) == propagated(cls)

\* C5 as stated: a successful register with auto_propagate gives the name
\* to every ancestor below the Base class; without it the binding of
\* every ancestor is unchanged. (A system register takes no flag: the
\* default, true, is what the claim then reads.)
C5_AsStated ==
    \A cls \in Types : \A name \in NamesOf(cls) : \A auto \in BOOLEAN :
        LET r == register(State, cls, name, auto, 1)
            flag == IF cls \in ComponentTypes THEN auto ELSE TRUE
        IN  r.ret = "True" =>
                /\ r.st.attr[BaseOf(cls)] = None
                /\ \A a \in Ancestors(cls) :
                      r.st.attr[a] = IF flag THEN name ELSE attr[a]

\* The names that the dependencies registered by a call may have written
\* to class a: the default name of a newly bound class that is a or has a
\* among the classes it propagates to.
WrittenByDependencies(st, after, cls, a) ==
    { default_name[x] : x \in { y \in NewlyBound(st, after) \ {cls} :
                                   a \in {y} \cup propagated(y) } }

\* C5, amended: a successful register of a component with auto_register
\* writes the name to every ancestor below Base, and without auto_register
\* it writes to no ancestor; when the call returns an ancestor holds that
\* value unless a dependency the call registered has written its own
\* default name over it. A system register takes no flag and writes to no
\* ancestor. Base itself and the classes above it are never written.
C5_NamePropagated ==
    \A cls \in Types : \A name \in NamesOf(cls) : \A auto \in BOOLEAN :
        LET r == register(State, cls, name, auto, 1)
            flag == IF cls \in ComponentTypes THEN auto ELSE FALSE
        IN  r.ret = "True" =>
                /\ \A c \in {ComponentBase, SystemBase} \cup Foreign : r.st.attr[c] = attr[c]
                /\ \A a \in Ancestors(cls) :
                      r.st.attr[a] \in {IF flag THEN name ELSE attr[a]}
                                         \cup WrittenByDependencies(State, r.st, cls, a)

\* A register has just given one name, not its default name, to a class
\* and to its two ancestors.
C5_Witness ==
    /\ op = "register" /\ ret = "True"
    /\ \E cls \in ComponentTypes : \E name \in ComponentNames \ {default_name[cls]} :
          /\ Cardinality(Ancestors(cls)) = 2
          /\ resolve(components, name) = cls
          /\ \A c \in {cls} \cup Ancestors(cls) : attr[c] = name

(* ---------------------------------------------------------------------- *)
(* C6                                                                      *)
(* ---------------------------------------------------------------------- *)

RegisteredDependents(st, d) ==
    { t \in Types : d \in DependenciesOf(t) /\ Truthy(registered_as(st.attr, t)) }

\* unregister of any class, with the flag where the class takes one.
unregister(st, cls, auto) ==
    IF cls \in ComponentTypes THEN component_unregister(st, cls, auto)
    ELSE system_unregister(st, cls)

\* The binding of a class: the name it reports and the names bound to it.
Binding(st, t) == <<registered_as(st.attr, t), NamesBoundTo(st, t)>>

Related(t, d) ==
    \E c \in Types : issubclass(t, c) /\ issubclass(d, c)

FailingDependencies(st, cls) ==
    { d \in DependenciesOf(cls) :
        /\ needs_registration(st.attr, d)
        /\ resolve(RegistryOf(st, d), default_name[d]) \notin {None, d} }

\* No class that the registration of cls can visit is among its own
\* transitive dependencies.
Acyclic(cls) ==
    \A t \in {cls} \cup TransitiveDependencies(cls) : t \notin TransitiveDependencies(t)

\* C8: a register whose own binding is acceptable (the name is free, the
\* class is unbound, and the name is not the default name of a class the
\* dependency walk may register) and whose dependency walk is finite binds
\* the class under the name and returns True although the registration of
\* a dependency fails on a default name bound to another class; that
\* dependency stays unregistered and its default name stays where it was.
C8_FailureNotPropagated ==
    \A cls \in Types : \A name \in NamesOf(cls) : \A auto \in BOOLEAN :
        LET r == register(State, cls, name, auto, 1)
            failing == FailingDependencies(State, cls)
        IN  (/\ failing # {}
             /\ Acyclic(cls)
             /\ can_register(RegistryOf(State, cls), name, cls)
             /\ name \notin { default_name[t] : t \in TransitiveDependencies(cls) }) =>
                /\ r.ret = "True"
                /\ RegisteredUnder(r.st, cls, name)
                /\ \A d \in failing :
                      /\ NamesBoundTo(r.st, d) = {}
                      /\ resolve(RegistryOf(r.st, d), default_name[d]) =
                            resolve(RegistryOf(State, d), default_name[d])

\* A register has just returned True and a registered system has a
\* dependency that is unregistered while its default name is bound to
\* another class; so has a registered component.
C8_Witness ==
    /\ op = "register" /\ ret = "True"
    /\ \A kind \in {ComponentTypes, SystemTypes} :
          \E cls \in kind :
              /\ Acyclic(cls)
              /\ NamesBoundTo(State, cls) = {registered_as(attr, cls)}
              /\ FailingDependencies(State, cls) # {}

(* ---------------------------------------------------------------------- *)
(* C9                                                                      *)
(* ---------------------------------------------------------------------- *)

\* The classes a walk from the classes of `frontier` visits when it goes on
\* through unregistered classes only.
RECURSIVE UnregisteredReach(_, _, _)
UnregisteredReach(st, seen, frontier) ==
    IF frontier \subseteq seen THEN seen
    ELSE UnregisteredReach(st, seen \cup frontier,
             UNION { { d \in DependenciesOf(t) : needs_registration(st.attr, d) } :
                       t \in frontier })

\* cls is unregistered and lies on a cycle of declared dependencies whose
\* classes are all unregistered.
OnUnregisteredCycle(st, cls) ==
    /\ needs_registration(st.attr, cls)
    /\ cls \in UnregisteredReach(st, {},
                  { d \in DependenciesOf(cls) : needs_registration(st.attr, d) })

\* C9 as stated: register of a class on a cycle of unregistered classes
\* never returns.
C9_AsStated ==
    \A cls \in Types : \A name \in NamesOf(cls) : \A auto \in BOOLEAN :
        OnUnregisteredCycle(State, cls) =>
            Raised(register(State, cls, name, auto, 1))

\* C9, amended: register of a system on a cycle of unregistered systems
\* does not return (the recursion goes on until the interpreter's limit
\* raises); register of a component on a cycle of unregistered components
\* returns: True when the manager accepts the name, False otherwise. When
\* it returns True the component is registered under the name, and each
\* of its dependencies on such a cycle is registered or has collided.
C9_CyclicDependencies ==
    \A cls \in Types : \A name \in NamesOf(cls) : \A auto \in BOOLEAN :
        LET r == register(State, cls, name, auto, 1)
        IN  OnUnregisteredCycle(State, cls) =>
                IF cls \in SystemTypes
                THEN Raised(r)
                ELSE /\ r.ret = IF can_register(components, name, cls) THEN "True" ELSE "False"
                     /\ r.ret = "True" =>
                           /\ RegisteredUnder(r.st, cls, name)
                           /\ \A d \in DependenciesOf(cls) :
                                 OnUnregisteredCycle(State, d) =>
                                     \/ ~needs_registration(r.st.attr, d)
                                     \/ Collides(r.st, d)

\* A register of a system has just ended in the recursion limit while the
\* two components that list each other as dependencies are both
\* registered, and a system that lists another system which lists it back
\* is unregistered.
C9_Witness ==
    /\ op = "register" /\ ret = "RecursionError"
    /\ \E a, b \in ComponentTypes :
          /\ a # b /\ a \in DependenciesOf(b) /\ b \in DependenciesOf(a)
          /\ NamesBoundTo(State, a) # {} /\ NamesBoundTo(State, b) # {}
    /\ \E a, b \in SystemTypes :
          /\ a # b /\ a \in DependenciesOf(b) /\ b \in DependenciesOf(a)
          /\ OnUnregisteredCycle(State, a)

(* ---------------------------------------------------------------------- *)
(* C10                                                                     *)
(* ---------------------------------------------------------------------- *)

\* C10: unregister of a class, component or system, returns True when the
\* name the class reports is bound, and the name is then free and the
\* class reports none; otherwise it returns False and changes nothing.
C10_AsStated ==
    \A cls \in Types : \A auto \in BOOLEAN :
        LET r == unregister(State, cls, auto)
            name == registered_as(attr, cls)
        IN  IF can_unregister(RegistryOf(State, cls), name)
            THEN /\ r.ret = "True"
                 /\ resolve(RegistryOf(r.st, cls), name) = None
                 /\ ~Truthy(registered_as(r.st.attr, cls))
            ELSE r.ret = "False" /\ r.st = State

(* ====================================================================== *)
(* systems/character_statistics.py: CharacterStatisticSystem               *)
(* ====================================================================== *)

\* The class properties of CharacterStatisticSystem.
min_stat_value == 0
default_stat_value == 50
max_stat_value == 100

\* The most increase, decrease and step calls of a program.
MaxCalls == 2

\* The offsets the cost curve is evaluated at: -MaxOffset .. MaxOffset.
MaxOffset == 60

\* The entities of the world and the statistic names that calls pass.
Entities == {"E1", "E2", "E3"}
StatisticNames == {"strength", "agility", "power", "speed", "luck"}

\* Python dictionaries: functions whose domain is the set of keys.
EmptyDict == <<>>
Has(dict, key) == key \in DOMAIN dict
Put(dict, key, value) ==
    [k \in DOMAIN dict \cup {key} |-> IF k = key THEN value ELSE dict[k]]

\* What a call hands back: a value, None, or an exception.
Returned(value) == [exc |-> "", none |-> FALSE, val |-> value]
ReturnedNone == [exc |-> "", none |-> TRUE, val |-> 0]
Raise(exception) == [exc |-> exception, none |-> FALSE, val |-> 0]

\* A cost curve that does not take the absolute value of the offset.
get_stat_cost_signed(offset) ==
    IF offset < 22 THEN 1
    ELSE IF offset < 29 THEN 2
    ELSE IF offset < 32 THEN 3
    ELSE IF offset < 35 THEN 4
    ELSE IF offset < 36 THEN 5
    ELSE IF offset < 38 THEN 6
    ELSE IF offset < 39 THEN 7
    ELSE IF offset < 40 THEN 8
    ELSE IF offset < 41 THEN 9
    ELSE 10

\* get_stat_cost(offset)
get_stat_cost(offset) ==
    LET off == IF offset < 0 THEN offset * (-1) ELSE offset
    IN  IF off < 22 THEN 1
        ELSE IF off < 29 THEN 2
        ELSE IF off < 32 THEN 3
        ELSE IF off < 35 THEN 4
        ELSE IF off < 36 THEN 5
        ELSE IF off < 38 THEN 6
        ELSE IF off < 39 THEN 7
        ELSE IF off < 40 THEN 8
        ELSE IF off < 41 THEN 9
        ELSE 10

\* getattr(entity, CharacterStatistics.registered_as): the entity's
\* CharacterStatistics data; it is falsy when the entity has none.
char_stats(st, entity) == st.entities[entity]

\* A test that takes every entity to have the component.
has_statistics_always(st, entity) == TRUE

\* "if not getattr(entity, CharacterStatistics.registered_as)", negated.
has_statistics(st, entity) == char_stats(st, entity).active

\* The data of an entity without the component, and of one with it.
NoStatistics == [active |-> FALSE, primary_stats |-> EmptyDict,
                 secondary_stats |-> EmptyDict, stat_points |-> 0]
Statistics(primary, secondary, points) ==
    [active |-> TRUE, primary_stats |-> primary,
     secondary_stats |-> secondary, stat_points |-> points]

\* get_statistic_value(entity, statistic)
get_statistic_value(st, entity, statistic) ==
    IF ~has_statistics(st, entity) THEN Raise("NoStatisticComponentError")
    ELSE IF Has(st.primary_statistics, statistic)
    THEN IF Has(char_stats(st, entity).primary_stats, statistic)
         THEN Returned(char_stats(st, entity).primary_stats[statistic])
         ELSE Returned(0)
    ELSE IF Has(st.secondary_statistics, statistic)
    THEN IF Has(char_stats(st, entity).secondary_stats, statistic)
         THEN Returned(char_stats(st, entity).secondary_stats[statistic])
         ELSE Returned(0)
    ELSE ReturnedNone

\* get_primary_statistic_values(entity)
get_primary_statistic_values(st, entity) ==
    IF ~has_statistics(st, entity) THEN Raise("NoStatisticComponentError")
    ELSE Returned([statistic \in DOMAIN st.primary_statistics |->
                      get_statistic_value(st, entity, statistic).val])

\* get_secondary_statistic_values(entity)
get_secondary_statistic_values(st, entity) ==
    IF ~has_statistics(st, entity) THEN Raise("NoStatisticComponentError")
    ELSE Returned([statistic \in DOMAIN st.secondary_statistics |->
                      get_statistic_value(st, entity, statistic).val])

\* get_statistic_values(entity): the primary values updated with the
\* secondary values.
get_statistic_values(st, entity) ==
    LET primary == get_primary_statistic_values(st, entity)
        secondary == get_secondary_statistic_values(st, entity)
    IN  IF primary.exc # "" THEN primary
        ELSE IF secondary.exc # "" THEN secondary
        ELSE Returned([statistic \in DOMAIN primary.val \cup DOMAIN secondary.val |->
                          IF Has(secondary.val, statistic)
                          THEN secondary.val[statistic]
                          ELSE primary.val[statistic]])

\* get_statistic_points(entity)
get_statistic_points(st, entity) ==
    IF ~has_statistics(st, entity) THEN Raise("NoStatisticComponentError")
    ELSE Returned(char_stats(st, entity).stat_points)

\* A getter that evaluates the cost curve at the current value.
cost_at_current_value(st, entity, statistic, step) ==
    IF ~has_statistics(st, entity) THEN Raise("NoStatisticComponentError")
    ELSE IF ~Has(char_stats(st, entity).primary_stats, statistic)
    THEN Raise("KeyError")
    ELSE LET cur_value == char_stats(st, entity).primary_stats[statistic]
             offset == cur_value - default_stat_value
         IN  Returned(get_stat_cost(offset))

\* The cost curve at cur_value + step - default_stat_value, where
\* cur_value = char_stats.primary_stats[statistic] raises KeyError when the
\* entity's dictionary has no such key.
cost_at(st, entity, statistic, step) ==
    IF ~has_statistics(st, entity) THEN Raise("NoStatisticComponentError")
    ELSE IF ~Has(char_stats(st, entity).primary_stats, statistic)
    THEN Raise("KeyError")
    ELSE LET cur_value == char_stats(st, entity).primary_stats[statistic]
             new_value == cur_value + step
             offset == new_value - default_stat_value
         IN  Returned(get_stat_cost(offset))

\* get_statistic_increase_cost(entity, statistic)
get_statistic_increase_cost(st, entity, statistic) == cost_at(st, entity, statistic, 1)

\* get_statistic_decrease_gain(entity, statistic)
get_statistic_decrease_gain(st, entity, statistic) == cost_at(st, entity, statistic, -1)

\* A check that does not compare the value with max_stat_value.
can_increase_statistic_any_value(st, entity, statistic) ==
    IF ~Has(st.primary_statistics, statistic) THEN Returned(FALSE)
    ELSE LET value == get_statistic_value(st, entity, statistic)
         IN  IF value.exc # "" THEN value
             ELSE LET cost == get_statistic_increase_cost(st, entity, statistic)
                  IN  IF cost.exc # "" THEN cost
                      ELSE Returned(cost.val <= get_statistic_points(st, entity).val)

\* A check that does not compare the cost with the stat_points.
can_increase_statistic_any_cost(st, entity, statistic) ==
    IF ~Has(st.primary_statistics, statistic) THEN Returned(FALSE)
    ELSE LET value == get_statistic_value(st, entity, statistic)
         IN  IF value.exc # "" THEN value
             ELSE IF value.val < max_stat_value
             THEN LET cost == get_statistic_increase_cost(st, entity, statistic)
                  IN  IF cost.exc # "" THEN cost
                      ELSE Returned(TRUE)
             ELSE Returned(FALSE)

\* can_increase_statistic(entity, statistic)
can_increase_statistic(st, entity, statistic) ==
    IF ~Has(st.primary_statistics, statistic) THEN Returned(FALSE)
    ELSE LET value == get_statistic_value(st, entity, statistic)
         IN  IF value.exc # "" THEN value
             ELSE IF value.val < max_stat_value
             THEN LET cost == get_statistic_increase_cost(st, entity, statistic)
                  IN  IF cost.exc # "" THEN cost
                      ELSE Returned(cost.val <= get_statistic_points(st, entity).val)
             ELSE Returned(FALSE)

\* can_decrease_statistic(entity, statistic)
can_decrease_statistic(st, entity, statistic) ==
    IF ~Has(st.primary_statistics, statistic) THEN Returned(FALSE)
    ELSE LET value == get_statistic_value(st, entity, statistic)
         IN  IF value.exc # "" THEN value
             ELSE Returned(value.val > min_stat_value)

\* An adjustment of the value that leaves the stat_points alone.
adjust_value_only(st, entity, statistic, delta, points) ==
    [st EXCEPT !.entities[entity].primary_stats[statistic] = @ + delta]

\* char_stats.primary_stats[statistic] += delta; char_stats.stat_points += points
adjust(st, entity, statistic, delta, points) ==
    [st EXCEPT !.entities[entity] =
        [@ EXCEPT !.primary_stats[statistic] = @ + delta,
                  !.stat_points = @ + points]]

\* An increase that does not ask can_increase_statistic.
increase_statistic_without_check(st, entity, statistic) ==
    IF ~has_statistics(st, entity)
    THEN [st |-> st, res |-> Raise("NoStatisticComponentError")]
    ELSE LET cost == get_statistic_increase_cost(st, entity, statistic)
         IN  IF cost.exc # "" THEN [st |-> st, res |-> cost]
             ELSE [st |-> adjust(st, entity, statistic, 1, 0 - cost.val),
                   res |-> ReturnedNone]

\* increase_statistic(entity, statistic)
increase_statistic(st, entity, statistic) ==
    LET can == can_increase_statistic(st, entity, statistic)
    IN  IF can.exc # "" THEN [st |-> st, res |-> can]
        ELSE IF ~can.val THEN [st |-> st, res |-> ReturnedNone]
        ELSE IF ~has_statistics(st, entity)
        THEN [st |-> st, res |-> Raise("NoStatisticComponentError")]
        ELSE LET cost == get_statistic_increase_cost(st, entity, statistic)
             IN  IF cost.exc # "" THEN [st |-> st, res |-> cost]
                 ELSE [st |-> adjust(st, entity, statistic, 1, 0 - cost.val),
                       res |-> ReturnedNone]

\* decrease_statistic(entity, statistic): the gain is
\* get_statistic_increase_cost, read before the value is lowered.
decrease_statistic(st, entity, statistic) ==
    LET can == can_decrease_statistic(st, entity, statistic)
    IN  IF can.exc # "" THEN [st |-> st, res |-> can]
        ELSE IF ~can.val THEN [st |-> st, res |-> ReturnedNone]
        ELSE IF ~has_statistics(st, entity)
        THEN [st |-> st, res |-> Raise("NoStatisticComponentError")]
        ELSE LET gain == get_statistic_increase_cost(st, entity, statistic)
             IN  IF gain.exc # "" THEN [st |-> st, res |-> gain]
                 ELSE [st |-> adjust(st, entity, statistic, -1, gain.val),
                       res |-> ReturnedNone]

\* The sum of f over the set S.
RECURSIVE Sum(_, _)
Sum(f, S) ==
    IF S = {} THEN 0
    ELSE LET x == CHOOSE y \in S : TRUE IN f[x] + Sum(f, S \ {x})

\* The orders a loop may visit the members of S in.
Orders(S) ==
    { order \in [1..Cardinality(S) -> S] :
        \A i, j \in 1..Cardinality(S) : i # j => order[i] # order[j] }

\* The inner loop of step: "total += value * influence" over the influences
\* of one secondary statistic. A value of None makes the product raise
\* TypeError.
total_of(st, entity, influences) ==
    IF \E name \in DOMAIN influences : get_statistic_value(st, entity, name).none
    THEN Raise("TypeError")
    ELSE Returned(Sum([name \in DOMAIN influences |->
                          get_statistic_value(st, entity, name).val * influences[name]],
                      DOMAIN influences))

\* The loop of step over the secondary statistics for one entity, from the
\* i-th statistic of the iteration order on.
RECURSIVE step_statistics(_, _, _, _)
step_statistics(st, entity, order, i) ==
    IF i > Len(order) THEN [st |-> st, res |-> ReturnedNone]
    ELSE LET total == total_of(st, entity, st.secondary_statistics[order[i]])
         IN  IF total.exc # "" THEN [st |-> st, res |-> total]
             ELSE step_statistics(
                      [st EXCEPT !.entities[entity].secondary_stats =
                                     Put(@, order[i], total.val)],
                      entity, order, i + 1)

\* An extent of all the entities of the world.
entity_extent_of_all(st) == DOMAIN st.entities

\* The entities with the component: getattr(self.world[RPGEntity], comp_name).
entity_extent(st) == { entity \in DOMAIN st.entities : has_statistics(st, entity) }

\* The loop of step over the entities, from the j-th entity on.
RECURSIVE step_entities(_, _, _, _)
step_entities(st, entity_order, j, order) ==
    IF j > Len(entity_order) THEN [st |-> st, res |-> ReturnedNone]
    ELSE LET r == step_statistics(st, entity_order[j], order, 1)
         IN  IF r.res.exc # "" THEN r
             ELSE step_entities(r.st, entity_order, j + 1, order)

\* step(time_delta), with the orders in which the extent and the
\* secondary_statistics dictionary are iterated.
step(st, entity_order, order) == step_entities(st, entity_order, 1, order)

(* ---------------------------------------------------------------------- *)
(* The programs that use a CharacterStatisticSystem                        *)
(* ---------------------------------------------------------------------- *)

\* The engine and world state a call starts from.
StatState == [primary_statistics |-> primary_statistics,
              secondary_statistics |-> secondary_statistics,
              entities |-> entities]

\* The primary catalog of every world: add_primary_statistic of two names.
PrimaryCatalog == ("strength" :> "Strength") @@ ("agility" :> "Agility")

\* The worlds a program starts in: the catalogs after the add_* calls and
\* the data of the entities. E3 has no CharacterStatistics component.
Worlds ==
    { [primary_statistics |-> PrimaryCatalog,
       secondary_statistics |-> ("power" :> (("strength" :> 1) @@ ("agility" :> 2))),
       entities |->
           ("E1" :> Statistics(("strength" :> 50) @@ ("agility" :> 71), EmptyDict, 1))
        @@ ("E2" :> Statistics(("strength" :> 100) @@ ("agility" :> 0),
                               ("power" :> 7), 10))
        @@ ("E3" :> NoStatistics)],
      [primary_statistics |-> PrimaryCatalog,
       secondary_statistics |-> ("power" :> (("strength" :> 1) @@ ("agility" :> -1)))
                             @@ ("speed" :> (("power" :> 2) @@ ("agility" :> 1))),
       entities |->
           ("E1" :> Statistics(("strength" :> 99) @@ ("agility" :> 29), EmptyDict, 10))
        @@ ("E2" :> Statistics(EmptyDict, ("power" :> 7), 10))
        @@ ("E3" :> NoStatistics)],
      [primary_statistics |-> PrimaryCatalog,
       secondary_statistics |-> ("power" :> ("strength" :> 1))
                             @@ ("speed" :> ("luck" :> 1)),
       entities |->
           ("E1" :> Statistics(("strength" :> 1) @@ ("agility" :> 50), EmptyDict, 0))
        @@ ("E2" :> Statistics(("strength" :> 72), EmptyDict, 2))
        @@ ("E3" :> NoStatistics)] }

\* A program starts in one of the worlds; it leaves the registry alone.
InitStatistics ==
    /\ \E world \in Worlds :
          /\ primary_statistics = world.primary_statistics
          /\ secondary_statistics = world.secondary_statistics
          /\ entities = world.entities
    /\ result = ReturnedNone
    /\ calls = 0
    /\ op = "none"
    /\ bases = FlatBases
    /\ dependencies = NoDependencies
    /\ attr = [c \in Classes |->
                 IF c \in {ComponentBase, SystemBase} THEN None ELSE Unset]
    /\ components = EmptyRegistry(ComponentNames)
    /\ systems = EmptyRegistry(SystemNames)
    /\ ret = "None"
    /\ released = {}

\* What a call on the engine leaves alone.
statFrame == <<bases, dependencies, attr, components, systems, ret, released,
               primary_statistics, secondary_statistics>>

\* The calls that read: each returns a value or raises, and changes no data.
GetStatisticValue(entity, statistic) ==
    /\ op' = "get_statistic_value"
    /\ result' = get_statistic_value(StatState, entity, statistic)
    /\ UNCHANGED <<entities, calls, statFrame>>

GetPrimaryStatisticValues(entity) ==
    /\ op' = "get_primary_statistic_values"
    /\ result' = get_primary_statistic_values(StatState, entity)
    /\ UNCHANGED <<entities, calls, statFrame>>

GetSecondaryStatisticValues(entity) ==
    /\ op' = "get_secondary_statistic_values"
    /\ result' = get_secondary_statistic_values(StatState, entity)
    /\ UNCHANGED <<entities, calls, statFrame>>

GetStatisticValues(entity) ==
    /\ op' = "get_statistic_values"
    /\ result' = get_statistic_values(StatState, entity)
    /\ UNCHANGED <<entities, calls, statFrame>>

GetStatisticPoints(entity) ==
    /\ op' = "get_statistic_points"
    /\ result' = get_statistic_points(StatState, entity)
    /\ UNCHANGED <<entities, calls, statFrame>>

GetStatisticIncreaseCost(entity, statistic) ==
    /\ op' = "get_statistic_increase_cost"
    /\ result' = get_statistic_increase_cost(StatState, entity, statistic)
    /\ UNCHANGED <<entities, calls, statFrame>>

GetStatisticDecreaseGain(entity, statistic) ==
    /\ op' = "get_statistic_decrease_gain"
    /\ result' = get_statistic_decrease_gain(StatState, entity, statistic)
    /\ UNCHANGED <<entities, calls, statFrame>>

CanIncreaseStatistic(entity, statistic) ==
    /\ op' = "can_increase_statistic"
    /\ result' = can_increase_statistic(StatState, entity, statistic)
    /\ UNCHANGED <<entities, calls, statFrame>>

CanDecreaseStatistic(entity, statistic) ==
    /\ op' = "can_decrease_statistic"
    /\ result' = can_decrease_statistic(StatState, entity, statistic)
    /\ UNCHANGED <<entities, calls, statFrame>>

\* The calls that write: each is counted, and leaves the entities as the
\* method left them when it returned or raised.
IncreaseStatistic(entity, statistic) ==
    LET r == increase_statistic(StatState, entity, statistic)
    IN  /\ calls < MaxCalls
        /\ calls' = calls + 1
        /\ op' = "increase_statistic"
        /\ result' = r.res
        /\ entities' = r.st.entities
        /\ UNCHANGED statFrame

DecreaseStatistic(entity, statistic) ==
    LET r == decrease_statistic(StatState, entity, statistic)
    IN  /\ calls < MaxCalls
        /\ calls' = calls + 1
        /\ op' = "decrease_statistic"
        /\ result' = r.res
        /\ entities' = r.st.entities
        /\ UNCHANGED statFrame

Step(entity_order, order) ==
    LET r == step(StatState, entity_order, order)
    IN  /\ calls < MaxCalls
        /\ calls' = calls + 1
        /\ op' = "step"
        /\ result' = r.res
        /\ entities' = r.st.entities
        /\ UNCHANGED statFrame

NextStatistics ==
    \/ \E entity \in Entities, statistic \in StatisticNames :
          GetStatisticValue(entity, statistic)
    \/ \E entity \in Entities : GetPrimaryStatisticValues(entity)
    \/ \E entity \in Entities : GetSecondaryStatisticValues(entity)
    \/ \E entity \in Entities : GetStatisticValues(entity)
    \/ \E entity \in Entities : GetStatisticPoints(entity)
    \/ \E entity \in Entities, statistic \in StatisticNames :
          GetStatisticIncreaseCost(entity, statistic)
    \/ \E entity \in Entities, statistic \in StatisticNames :
          GetStatisticDecreaseGain(entity, statistic)
    \/ \E entity \in Entities, statistic \in StatisticNames :
          CanIncreaseStatistic(entity, statistic)
    \/ \E entity \in Entities, statistic \in StatisticNames :
          CanDecreaseStatistic(entity, statistic)
    \/ \E entity \in Entities, statistic \in StatisticNames :
          IncreaseStatistic(entity, statistic)
    \/ \E entity \in Entities, statistic \in StatisticNames :
          DecreaseStatistic(entity, statistic)
    \/ \E entity_order \in Orders(entity_extent(StatState)),
              order \in Orders(DOMAIN secondary_statistics) :
          Step(entity_order, order)

\* Programs that read and edit the statistics of the entities of a world.
SpecStatistics == InitStatistics /\ [][NextStatistics]_vars

(* ---------------------------------------------------------------------- *)
(* C11                                                                     *)
(* ---------------------------------------------------------------------- *)

\* The step table of the cost curve: <<from, below, cost>>; the last row
\* has no upper end.
StepTable ==
    << <<0, 22, 1>>, <<22, 29, 2>>, <<29, 32, 3>>, <<32, 35, 4>>, <<35, 36, 5>>,
       <<36, 38, 6>>, <<38, 39, 7>>, <<39, 40, 8>>, <<40, 41, 9>> >>
TableCost(distance) ==
    IF distance >= 41 THEN 10
    ELSE LET row == CHOOSE i \in 1..Len(StepTable) :
                        StepTable[i][1] <= distance /\ distance < StepTable[i][2]
         IN  StepTable[row][3]
Abs(x) == IF x < 0 THEN 0 - x ELSE x
Offsets == (0 - MaxOffset)..MaxOffset

\* C11: for every offset get_stat_cost is the step table at |offset|; it
\* is the same for x and -x, non-decreasing in |offset| (from each distance
\* to the next), within 1..10, and 10 from 41 on (at 1000 too).
C11_CostCurve ==
    /\ \A offset \in Offsets :
          /\ get_stat_cost(offset) = TableCost(Abs(offset))
          /\ get_stat_cost(0 - offset) = get_stat_cost(offset)
          /\ get_stat_cost(offset) \in 1..10
          /\ Abs(offset) >= 41 => get_stat_cost(offset) = 10
    /\ \A distance \in 0..(MaxOffset - 1) :
          get_stat_cost(distance) <= get_stat_cost(distance + 1)
    /\ get_stat_cost(21) = 1 /\ get_stat_cost(-21) = 1 /\ get_stat_cost(22) = 2
    /\ get_stat_cost(41) = 10 /\ get_stat_cost(1000) = 10 /\ get_stat_cost(-1000) = 10
    /\ result.exc = "" /\ op \in {"get_statistic_increase_cost", "get_statistic_decrease_gain"}
          => result.val \in 1..10

\* get_statistic_decrease_gain has just returned 2 for a statistic of value
\* 29, that is for the offset -22.
C11_Witness ==
    /\ op = "get_statistic_decrease_gain" /\ result.exc = "" /\ result.val = 2
    /\ \E entity \in Entities : \E statistic \in StatisticNames :
          /\ has_statistics(StatState, entity)
          /\ Has(char_stats(StatState, entity).primary_stats, statistic)
          /\ char_stats(StatState, entity).primary_stats[statistic] = 29
          /\ get_statistic_decrease_gain(StatState, entity, statistic) = Returned(2)

(* ---------------------------------------------------------------------- *)
(* C12                                                                     *)
(* ---------------------------------------------------------------------- *)

\* The entity holds the primary statistic in its dictionary.
Holds(st, entity, statistic) ==
    /\ has_statistics(st, entity)
    /\ Has(st.primary_statistics, statistic)
    /\ Has(char_stats(st, entity).primary_stats, statistic)

\* C12: for a primary statistic with a value in (min_stat_value,
\* max_stat_value], decrease_statistic refunds what the following
\* increase_statistic charges: the two calls bring the value and the
\* stat_points of the entity back to what they were.
C12_AsStated ==
    \A entity \in Entities : \A statistic \in StatisticNames :
        LET value == char_stats(StatState, entity).primary_stats[statistic]
            lowered == decrease_statistic(StatState, entity, statistic)
            restored == increase_statistic(lowered.st, entity, statistic)
        IN  (/\ Holds(StatState, entity, statistic)
             /\ min_stat_value < value /\ value <= max_stat_value) =>
                /\ char_stats(lowered.st, entity).stat_points
                      - char_stats(StatState, entity).stat_points
                   = get_stat_cost(((value - 1) + 1) - default_stat_value)
                /\ restored.st.entities = entities

(* ---------------------------------------------------------------------- *)
(* C13                                                                     *)
(* ---------------------------------------------------------------------- *)

\* The data a call on the engine can see: the catalogs and the entities.
StatData == <<primary_statistics, secondary_statistics, entities>>

\* For an entity that holds the primary statistic with value v the two
\* getters return the cost curve at (v + 1) - default_stat_value and at
\* (v - 1) - default_stat_value.
C13_Values ==
    \A entity \in Entities : \A statistic \in StatisticNames :
        Holds(StatState, entity, statistic) =>
            LET v == char_stats(StatState, entity).primary_stats[statistic]
            IN  /\ get_statistic_increase_cost(StatState, entity, statistic)
                      = Returned(get_stat_cost((v + 1) - default_stat_value))
                /\ get_statistic_decrease_gain(StatState, entity, statistic)
                      = Returned(get_stat_cost((v - 1) - default_stat_value))

\* A call of one of the two getters changes no catalog and no entity.
C13_Frame ==
    op' \in {"get_statistic_increase_cost", "get_statistic_decrease_gain"} =>
        UNCHANGED StatData

\* C13: get_statistic_increase_cost returns get_stat_cost((v + 1) -
\* default_stat_value) and get_statistic_decrease_gain returns
\* get_stat_cost((v - 1) - default_stat_value) for an entity whose primary
\* statistic has the value v, and neither call changes entity state.
C13_CostGetters == [](C13_Values) /\ [][C13_Frame]_vars

\* get_statistic_increase_cost has just returned 2 for a statistic of value
\* 71, for which get_statistic_decrease_gain returns 1.
C13_Witness ==
    /\ op = "get_statistic_increase_cost" /\ result.exc = "" /\ result.val = 2
    /\ \E entity \in Entities : \E statistic \in StatisticNames :
          /\ Holds(StatState, entity, statistic)
          /\ char_stats(StatState, entity).primary_stats[statistic] = 71
          /\ get_statistic_decrease_gain(StatState, entity, statistic) = Returned(1)

(* ---------------------------------------------------------------------- *)
(* C14                                                                     *)
(* ---------------------------------------------------------------------- *)

\* The value of a statistic as get_statistic_value reads it.
ValueOf(st, entity, statistic) == get_statistic_value(st, entity, statistic).val

\* The conditions under which the two checks are to answer True.
MayIncrease(st, entity, statistic) ==
    /\ Has(st.primary_statistics, statistic)
    /\ ValueOf(st, entity, statistic) < max_stat_value
    /\ get_stat_cost((ValueOf(st, entity, statistic) + 1) - default_stat_value)
          <= char_stats(st, entity).stat_points
MayDecrease(st, entity, statistic) ==
    /\ Has(st.primary_statistics, statistic)
    /\ ValueOf(st, entity, statistic) > min_stat_value

\* C14: for an entity with statistics, can_increase_statistic answers True
\* exactly when the statistic is primary, its value is below
\* max_stat_value and its increase cost is at most the stat_points, and
\* False otherwise; can_decrease_statistic answers True exactly when the
\* statistic is primary and its value is above min_stat_value.
C14_AsStated ==
    \A entity \in Entities : \A statistic \in StatisticNames :
        has_statistics(StatState, entity) =>
            LET inc == can_increase_statistic(StatState, entity, statistic)
                dec == can_decrease_statistic(StatState, entity, statistic)
            IN  /\ inc.exc = "" /\ inc.val = MayIncrease(StatState, entity, statistic)
                /\ dec.exc = "" /\ dec.val = MayDecrease(StatState, entity, statistic)

(* ---------------------------------------------------------------------- *)
(* C15                                                                     *)
(* ---------------------------------------------------------------------- *)

\* A call was rejected: it returned None and left the state as it was, and
\* so does the same call made again.
Rejected(st, r, again) ==
    /\ r.res = ReturnedNone
    /\ r.st = st
    /\ again = r

\* C15: when can_increase_statistic (can_decrease_statistic) returns
\* False, increase_statistic (decrease_statistic) returns None without an
\* exception and leaves the primary values, the secondary values and the
\* stat_points of every entity unchanged, however often it is repeated;
\* when can_increase_statistic (can_decrease_statistic) raises instead,
\* the call raises the same exception and nothing changes either.
C15_RejectedCallIsNoOp ==
    \A entity \in Entities : \A statistic \in StatisticNames :
        LET can_inc == can_increase_statistic(StatState, entity, statistic)
            can_dec == can_decrease_statistic(StatState, entity, statistic)
            inc == increase_statistic(StatState, entity, statistic)
            dec == decrease_statistic(StatState, entity, statistic)
        IN  /\ (can_inc.exc = "" /\ ~can_inc.val) =>
                  Rejected(StatState, inc, increase_statistic(inc.st, entity, statistic))
            /\ (can_dec.exc = "" /\ ~can_dec.val) =>
                  Rejected(StatState, dec, decrease_statistic(dec.st, entity, statistic))
            /\ can_inc.exc # "" => inc.st = StatState /\ inc.res = can_inc
            /\ can_dec.exc # "" => dec.st = StatState /\ dec.res = can_dec

\* The one writing call of the program so far was an increase_statistic
\* that returned None, and the world is as it started: the call was
\* rejected. In that world an entity has too few stat_points, another is at
\* max_stat_value or lacks the points too.
C15_Witness ==
    /\ op = "increase_statistic" /\ result = ReturnedNone /\ calls = 1
    /\ \E world \in Worlds : StatState = world
    /\ \E entity \in Entities : \E statistic \in StatisticNames :
          /\ Holds(StatState, entity, statistic)
          /\ ValueOf(StatState, entity, statistic) < max_stat_value
          /\ can_increase_statistic(StatState, entity, statistic).exc = ""
          /\ ~can_increase_statistic(StatState, entity, statistic).val

(* ---------------------------------------------------------------------- *)
(* C16                                                                     *)
(* ---------------------------------------------------------------------- *)

\* The state in which one statistic of one entity has the value `value`
\* and the entity has `points` stat_points, and all else is as in st.
With(st, entity, statistic, value, points) ==
    [st EXCEPT !.entities[entity] =
        [@ EXCEPT !.primary_stats = Put(@, statistic, value),
                  !.stat_points = points]]

\* C16: when can_increase_statistic returns True, increase_statistic
\* raises the value by 1 and lowers the stat_points by get_stat_cost((old
\* value + 1) - default_stat_value) in one step and changes nothing else:
\* no other statistic of the entity, no other entity, no catalog. From the
\* value default_stat_value with 1 stat point the call leaves the value
\* default_stat_value + 1 and 0 points, and a second call changes nothing.
C16_IncreaseCharges ==
    \A entity \in Entities : \A statistic \in StatisticNames :
        LET can == can_increase_statistic(StatState, entity, statistic)
            r == increase_statistic(StatState, entity, statistic)
            old == char_stats(StatState, entity).primary_stats[statistic]
            points == char_stats(StatState, entity).stat_points
        IN  (can.exc = "" /\ can.val) =>
                /\ r.res = ReturnedNone
                /\ r.st = With(StatState, entity, statistic, old + 1,
                               points - get_stat_cost((old + 1) - default_stat_value))
                /\ (old = default_stat_value /\ points = 1) =>
                      /\ char_stats(r.st, entity).primary_stats[statistic]
                            = default_stat_value + 1
                      /\ char_stats(r.st, entity).stat_points = 0
                      /\ increase_statistic(r.st, entity, statistic)
                            = [st |-> r.st, res |-> ReturnedNone]

\* After two writing calls, the last an increase_statistic, the world is
\* the one the program started in but for one statistic that went from
\* default_stat_value to default_stat_value + 1 and its entity's
\* stat_points that went from 1 to 0.
C16_Witness ==
    /\ op = "increase_statistic" /\ calls = 2
    /\ \E world \in Worlds : \E entity \in Entities : \E statistic \in StatisticNames :
          /\ Holds(world, entity, statistic)
          /\ char_stats(world, entity).primary_stats[statistic] = default_stat_value
          /\ char_stats(world, entity).stat_points = 1
          /\ StatState = With(world, entity, statistic, default_stat_value + 1, 0)

(* ---------------------------------------------------------------------- *)
(* C17                                                                     *)
(* ---------------------------------------------------------------------- *)

\* Every primary statistic of every entity with statistics, stored or read
\* as 0, is within [min_stat_value, max_stat_value].
WithinBounds(st) ==
    \A entity \in entity_extent(st) :
        /\ \A statistic \in DOMAIN st.primary_statistics :
              ValueOf(st, entity, statistic) \in min_stat_value..max_stat_value
        /\ \A key \in DOMAIN char_stats(st, entity).primary_stats :
              char_stats(st, entity).primary_stats[key] \in min_stat_value..max_stat_value

\* C17: the worlds start with every primary statistic within
\* [min_stat_value, max_stat_value], and every primary statistic is within
\* these bounds after any sequence of increase_statistic,
\* decrease_statistic and step calls: it is in every state reached, and
\* each of the three calls, made with any arguments, keeps it, also when
\* a statistic is put at or next to a bound with few or many stat_points.
C17_PrimaryWithinBounds ==
    /\ WithinBounds(StatState)
    /\ \A entity \in Entities : \A statistic \in StatisticNames :
          /\ WithinBounds(increase_statistic(StatState, entity, statistic).st)
          /\ WithinBounds(decrease_statistic(StatState, entity, statistic).st)
    /\ \A entity_order \in Orders(entity_extent(StatState)) :
          \A order \in Orders(DOMAIN secondary_statistics) :
              WithinBounds(step(StatState, entity_order, order).st)
    /\ \A entity \in entity_extent(StatState) :
          \A statistic \in DOMAIN primary_statistics :
              \A value \in {min_stat_value, min_stat_value + 1,
                            max_stat_value - 1, max_stat_value} :
                  \A points \in {0, 10, 11} :
                      LET st == With(StatState, entity, statistic, value, points)
                      IN  /\ WithinBounds(increase_statistic(st, entity, statistic).st)
                          /\ WithinBounds(decrease_statistic(st, entity, statistic).st)

\* After two writing calls, the last an increase_statistic, a statistic
\* that started at max_stat_value - 1 is at max_stat_value.
C17_Witness ==
    /\ op = "increase_statistic" /\ calls = 2
    /\ \E world \in Worlds : \E entity \in Entities : \E statistic \in StatisticNames :
          /\ Holds(world, entity, statistic)
          /\ char_stats(world, entity).primary_stats[statistic] = max_stat_value - 1
          /\ char_stats(StatState, entity).primary_stats[statistic] = max_stat_value

(* ---------------------------------------------------------------------- *)
(* C18                                                                     *)
(* ---------------------------------------------------------------------- *)

\* The statistic is in a catalog and the entity, which has statistics,
\* has no key for it in the dictionary of that catalog.
AbsentKey(st, entity, statistic) ==
    /\ has_statistics(st, entity)
    /\ \/ /\ Has(st.primary_statistics, statistic)
          /\ ~Has(char_stats(st, entity).primary_stats, statistic)
       \/ /\ ~Has(st.primary_statistics, statistic)
          /\ Has(st.secondary_statistics, statistic)
          /\ ~Has(char_stats(st, entity).secondary_stats, statistic)

\* C18: a catalogued statistic whose key the entity does not have reads as
\* 0 and no call fails on it: get_statistic_value returns 0, and for a
\* primary statistic the cost getters return the costs of the value 0,
\* can_increase_statistic answers, and increase_statistic and
\* decrease_statistic return without an exception.
C18_AsStated ==
    \A entity \in Entities : \A statistic \in StatisticNames :
        AbsentKey(StatState, entity, statistic) =>
            /\ get_statistic_value(StatState, entity, statistic) = Returned(0)
            /\ Has(primary_statistics, statistic) =>
                  /\ get_statistic_increase_cost(StatState, entity, statistic)
                        = Returned(get_stat_cost((0 + 1) - default_stat_value))
                  /\ get_statistic_decrease_gain(StatState, entity, statistic)
                        = Returned(get_stat_cost((0 - 1) - default_stat_value))
                  /\ can_increase_statistic(StatState, entity, statistic).exc = ""
                  /\ increase_statistic(StatState, entity, statistic).res.exc = ""
                  /\ decrease_statistic(StatState, entity, statistic).res.exc = ""

(* ---------------------------------------------------------------------- *)
(* C19                                                                     *)
(* ---------------------------------------------------------------------- *)

\* The secondary statistics whose influences name primary statistics only.
PrimaryInfluenced(st) ==
    { statistic \in DOMAIN st.secondary_statistics :
        DOMAIN st.secondary_statistics[statistic] \subseteq DOMAIN st.primary_statistics }

\* The weighted sum of the entity's values of the statistics that
\* influence the secondary statistic.
WeightedSum(st, entity, statistic) ==
    LET influences == st.secondary_statistics[statistic]
    IN  Sum([name \in DOMAIN influences |->
                influences[name] * ValueOf(st, entity, name)],
            DOMAIN influences)

\* C19: after step, whatever the iteration orders, every entity with
\* statistics stores for every secondary statistic influenced by primary
\* statistics only the weighted sum of its current values of these
\* statistics, absent keys counting as 0.
C19_AsStated ==
    \A entity_order \in Orders(entity_extent(StatState)) :
        \A order \in Orders(DOMAIN secondary_statistics) :
            LET r == step(StatState, entity_order, order)
            IN  \A entity \in entity_extent(StatState) :
                    \A statistic \in PrimaryInfluenced(StatState) :
                        /\ Has(char_stats(r.st, entity).secondary_stats, statistic)
                        /\ char_stats(r.st, entity).secondary_stats[statistic]
                              = WeightedSum(StatState, entity, statistic)

(* ---------------------------------------------------------------------- *)
(* C20                                                                     *)
(* ---------------------------------------------------------------------- *)

NoComponent(res) == res.exc = "NoStatisticComponentError"

\* For an entity without statistics every read raises
\* NoStatisticComponentError, and so do increase_statistic and
\* decrease_statistic on a primary statistic, which leave the state as it
\* was.
C20_Raises ==
    \A entity \in Entities :
        ~entities[entity].active =>
            /\ NoComponent(get_primary_statistic_values(StatState, entity))
            /\ NoComponent(get_secondary_statistic_values(StatState, entity))
            /\ NoComponent(get_statistic_values(StatState, entity))
            /\ NoComponent(get_statistic_points(StatState, entity))
            /\ \A statistic \in StatisticNames :
                  /\ NoComponent(get_statistic_value(StatState, entity, statistic))
                  /\ NoComponent(get_statistic_increase_cost(StatState, entity, statistic))
                  /\ NoComponent(get_statistic_decrease_gain(StatState, entity, statistic))
            /\ \A statistic \in DOMAIN primary_statistics :
                  LET inc == increase_statistic(StatState, entity, statistic)
                      dec == decrease_statistic(StatState, entity, statistic)
                  IN  /\ NoComponent(inc.res) /\ inc.st = StatState
                      /\ NoComponent(dec.res) /\ dec.st = StatState

\* A call that raises NoStatisticComponentError changes no catalog and no
\* entity.
C20_Frame == NoComponent(result') => UNCHANGED StatData

\* C20: for an entity that has no CharacterStatistics data,
\* get_statistic_value, the bulk reads, get_statistic_points, the cost
\* getters, and increase_statistic and decrease_statistic on a primary
\* statistic raise NoStatisticComponentError, and no entity state changes.
C20_NoComponentRaises == [](C20_Raises) /\ [][C20_Frame]_vars

\* increase_statistic has just raised NoStatisticComponentError, and an
\* entity of the world has no statistics.
C20_Witness ==
    /\ op = "increase_statistic" /\ NoComponent(result)
    /\ \E entity \in Entities : ~entities[entity].active

(* ---------------------------------------------------------------------- *)
(* C21                                                                     *)
(* ---------------------------------------------------------------------- *)

\* The names that are in neither catalog.
Uncatalogued(st) ==
    StatisticNames \ (DOMAIN st.primary_statistics \cup DOMAIN st.secondary_statistics)

\* The secondary statistics with an influence on an uncatalogued name.
LazilyInfluenced(st) ==
    { statistic \in DOMAIN st.secondary_statistics :
        DOMAIN st.secondary_statistics[statistic] \cap Uncatalogued(st) # {} }

\* C21: for an entity with statistics get_statistic_value of a name that
\* is in neither catalog returns without raising, and a step completes
\* without raising, whatever the iteration orders, also when a secondary
\* statistic has an influence on such a name.
C21_AsStated ==
    /\ \A entity \in entity_extent(StatState) :
          \A statistic \in Uncatalogued(StatState) :
              get_statistic_value(StatState, entity, statistic).exc = ""
    /\ \A entity_order \in Orders(entity_extent(StatState)) :
          \A order \in Orders(DOMAIN secondary_statistics) :
              step(StatState, entity_order, order).res.exc = ""

\* The part of C21 that the code keeps: the lookup itself returns None
\* without raising.
C21_LookupReturnsNone ==
    \A entity \in entity_extent(StatState) :
        \A statistic \in Uncatalogued(StatState) :
            LET res == get_statistic_value(StatState, entity, statistic)
            IN  res.exc = "" /\ res.none

\* Where C21 fails: a step over a secondary statistic with an influence on
\* an uncatalogued name raises TypeError for the first entity it visits.
C21_StepRaises ==
    (LazilyInfluenced(StatState) # {} /\ entity_extent(StatState) # {}) =>
        \A entity_order \in Orders(entity_extent(StatState)) :
            \A order \in Orders(DOMAIN secondary_statistics) :
                step(StatState, entity_order, order).res.exc = "TypeError"

(* ---------------------------------------------------------------------- *)
(* The catalogs of a CharacterStatisticSystem                              *)
(* ---------------------------------------------------------------------- *)

\* An add that stores the entry without looking for the name.
add_primary_statistic_overwrite(st, name, view_name) ==
    [st |-> [st EXCEPT !.primary_statistics = Put(@, name, view_name)],
     res |-> ReturnedNone]

\* add_primary_statistic(name, view_name, description): the entry of a
\* primary statistic is its displayed name.
add_primary_statistic(st, name, view_name) ==
    IF Has(st.primary_statistics, name)
    THEN [st |-> st, res |-> Raise("AlreadyRegisteredError")]
    ELSE [st |-> [st EXCEPT !.primary_statistics = Put(@, name, view_name)],
          res |-> ReturnedNone]

\* add_secondary_statistic(name, view_name, description, influences): the
\* entry of a secondary statistic is its influences.
add_secondary_statistic(st, name, influences) ==
    IF Has(st.secondary_statistics, name)
    THEN [st |-> st, res |-> Raise("AlreadyRegisteredError")]
    ELSE [st |-> [st EXCEPT !.secondary_statistics = Put(@, name, influences)],
          res |-> ReturnedNone]

\* The first loop of load_statistics_from_file, from the i-th primary
\* statistic of the definition on.
RECURSIVE load_primary(_, _, _, _)
load_primary(st, primary, order, i) ==
    IF i > Len(order) THEN [st |-> st, res |-> ReturnedNone]
    ELSE LET r == add_primary_statistic(st, order[i], primary[order[i]])
         IN  IF r.res.exc # "" THEN r
             ELSE load_primary(r.st, primary, order, i + 1)

\* The second loop of load_statistics_from_file, from the i-th secondary
\* statistic of the definition on.
RECURSIVE load_secondary(_, _, _, _)
load_secondary(st, secondary, order, i) ==
    IF i > Len(order) THEN [st |-> st, res |-> ReturnedNone]
    ELSE LET r == add_secondary_statistic(st, order[i], secondary[order[i]])
         IN  IF r.res.exc # "" THEN r
             ELSE load_secondary(r.st, secondary, order, i + 1)

\* load_statistics_from_file(filename): statistics_data is the definition
\* parsed from the file, and the orders are those of the items of its two
\* mappings.
load_statistics_from_file(st, statistics_data, primary_order, secondary_order) ==
    LET r == load_primary(st, statistics_data.primary, primary_order, 1)
    IN  IF r.res.exc # "" THEN r
        ELSE load_secondary(r.st, statistics_data.secondary, secondary_order, 1)

\* The arguments of the add calls of a program.
PrimaryNames == {"strength", "power"}
SecondaryNames == {"power", "speed"}
ViewNames == {"Strength", "Might"}
Influences ==
    { ("strength" :> 1),
      ("power" :> 2) @@ ("strength" :> 1),
      ("luck" :> 1) }

\* The definitions a program loads.
Definitions ==
    { [primary |-> ("strength" :> "Strength"),
       secondary |-> ("power" :> ("strength" :> 1))],
      [primary |-> ("strength" :> "Might") @@ ("power" :> "Might"),
       secondary |-> ("power" :> ("strength" :> 1))
                  @@ ("speed" :> (("power" :> 2) @@ ("strength" :> 1)))],
      [primary |-> ("power" :> "Might"),
       secondary |-> EmptyDict] }

\* A program starts with the engine as __init__ leaves it, in a world of
\* two entities with statistics and one without; it leaves the registry
\* alone.
InitCatalog ==
    /\ primary_statistics = EmptyDict
    /\ secondary_statistics = EmptyDict
    /\ entities =
           ("E1" :> Statistics(("strength" :> 60) @@ ("agility" :> 40), EmptyDict, 5))
        @@ ("E2" :> Statistics(("strength" :> 10), ("power" :> 7), 0))
        @@ ("E3" :> NoStatistics)
    /\ result = ReturnedNone
    /\ calls = 0
    /\ op = "none"
    /\ bases = FlatBases
    /\ dependencies = NoDependencies
    /\ attr = [c \in Classes |->
                 IF c \in {ComponentBase, SystemBase} THEN None ELSE Unset]
    /\ components = EmptyRegistry(ComponentNames)
    /\ systems = EmptyRegistry(SystemNames)
    /\ ret = "None"
    /\ released = {}

\* What a call that edits the catalogs leaves alone.
catalogFrame == <<bases, dependencies, attr, components, systems, ret, released,
                  entities, calls>>

AddPrimaryStatistic(name, view_name) ==
    LET r == add_primary_statistic(StatState, name, view_name)
    IN  /\ op' = "add_primary_statistic"
        /\ result' = r.res
        /\ primary_statistics' = r.st.primary_statistics
        /\ secondary_statistics' = r.st.secondary_statistics
        /\ UNCHANGED catalogFrame

AddSecondaryStatistic(name, influences) ==
    LET r == add_secondary_statistic(StatState, name, influences)
    IN  /\ op' = "add_secondary_statistic"
        /\ result' = r.res
        /\ primary_statistics' = r.st.primary_statistics
        /\ secondary_statistics' = r.st.secondary_statistics
        /\ UNCHANGED catalogFrame

LoadStatisticsFromFile(statistics_data, primary_order, secondary_order) ==
    LET r == load_statistics_from_file(StatState, statistics_data,
                                       primary_order, secondary_order)
    IN  /\ op' = "load_statistics_from_file"
        /\ result' = r.res
        /\ primary_statistics' = r.st.primary_statistics
        /\ secondary_statistics' = r.st.secondary_statistics
        /\ UNCHANGED catalogFrame

StepCatalog(entity_order, order) ==
    LET r == step(StatState, entity_order, order)
    IN  /\ calls < MaxCalls
        /\ calls' = calls + 1
        /\ op' = "step"
        /\ result' = r.res
        /\ entities' = r.st.entities
        /\ UNCHANGED statFrame

NextCatalog ==
    \/ \E name \in PrimaryNames, view_name \in ViewNames :
          AddPrimaryStatistic(name, view_name)
    \/ \E name \in SecondaryNames, influences \in Influences :
          AddSecondaryStatistic(name, influences)
    \/ \E statistics_data \in Definitions :
          \E primary_order \in Orders(DOMAIN statistics_data.primary),
             secondary_order \in Orders(DOMAIN statistics_data.secondary) :
              LoadStatisticsFromFile(statistics_data, primary_order, secondary_order)
    \/ \E entity_order \in Orders(entity_extent(StatState)),
              order \in Orders(DOMAIN secondary_statistics) :
          StepCatalog(entity_order, order)

\* Programs that fill the catalogs of an engine and step it.
SpecCatalog == InitCatalog /\ [][NextCatalog]_vars

(* ---------------------------------------------------------------------- *)
(* C22                                                                     *)
(* ---------------------------------------------------------------------- *)

\* The dictionary after an entry for a new key has been stored: the old
\* entries are kept and the new one is the given value.
Extends(dict, after, key, value) ==
    /\ DOMAIN after = DOMAIN dict \cup {key}
    /\ after[key] = value
    /\ \A k \in DOMAIN dict : after[k] = dict[k]

\* An add of a name that is in the catalog it adds to raises
\* AlreadyRegisteredError and changes neither catalog; an add of a name
\* that is not in that catalog stores the entry there, whether or not the
\* name is in the other catalog, and changes nothing else.
C22_Adds ==
    /\ \A name \in StatisticNames : \A view_name \in ViewNames :
          LET r == add_primary_statistic(StatState, name, view_name)
          IN  IF name \in DOMAIN primary_statistics
              THEN r.res.exc = "AlreadyRegisteredError" /\ r.st = StatState
              ELSE /\ r.res.exc = ""
                   /\ Extends(primary_statistics, r.st.primary_statistics,
                              name, view_name)
                   /\ r.st.secondary_statistics = secondary_statistics
    /\ \A name \in StatisticNames : \A influences \in Influences :
          LET r == add_secondary_statistic(StatState, name, influences)
          IN  IF name \in DOMAIN secondary_statistics
              THEN r.res.exc = "AlreadyRegisteredError" /\ r.st = StatState
              ELSE /\ r.res.exc = ""
                   /\ Extends(secondary_statistics, r.st.secondary_statistics,
                              name, influences)
                   /\ r.st.primary_statistics = primary_statistics

\* No call replaces or removes an entry of a catalog.
C22_Kept ==
    /\ \A name \in DOMAIN primary_statistics :
          /\ name \in DOMAIN primary_statistics'
          /\ primary_statistics'[name] = primary_statistics[name]
    /\ \A name \in DOMAIN secondary_statistics :
          /\ name \in DOMAIN secondary_statistics'
          /\ secondary_statistics'[name] = secondary_statistics[name]

\* C22: add_primary_statistic (add_secondary_statistic) of a name already
\* in the primary (secondary) catalog fails with AlreadyRegisteredError
\* and leaves both catalogs as they were; the catalogs are tested
\* independently of each other; and the entry stored under a name stays
\* the one of the first successful add.
C22_WriteOnce == [](C22_Adds) /\ [][C22_Kept]_vars

\* add_primary_statistic has just raised AlreadyRegisteredError in an
\* engine where a name is in both catalogs.
C22_Witness ==
    /\ op = "add_primary_statistic"
    /\ result.exc = "AlreadyRegisteredError"
    /\ DOMAIN primary_statistics \cap DOMAIN secondary_statistics # {}

(* ---------------------------------------------------------------------- *)
(* C23                                                                     *)
(* ---------------------------------------------------------------------- *)

\* The loads of a definition from the engine state st, one for each order
\* of the items of its mappings.
Loads(st, statistics_data) ==
    { load_statistics_from_file(st, statistics_data, primary_order, secondary_order) :
        primary_order \in Orders(DOMAIN statistics_data.primary),
        secondary_order \in Orders(DOMAIN statistics_data.secondary) }

\* The catalogs are exactly those of the definition.
HoldsExactly(st, statistics_data) ==
    /\ st.primary_statistics = statistics_data.primary
    /\ st.secondary_statistics = statistics_data.secondary

\* C23: a load succeeds and leaves in the catalogs exactly the primary and
\* secondary statistics of the definition, whatever they held before, and
\* a second load of the same definition succeeds and leaves the same
\* catalogs.
C23_AsStated ==
    \A statistics_data \in Definitions :
        \A r \in Loads(StatState, statistics_data) :
            /\ r.res.exc = ""
            /\ HoldsExactly(r.st, statistics_data)
            /\ \A again \in Loads(r.st, statistics_data) :
                  /\ again.res.exc = ""
                  /\ again.st = r.st

\* The dictionary with the entries of both; a key of both keeps the entry
\* of the first.
Merged(dict, other) ==
    [k \in DOMAIN dict \cup DOMAIN other |->
        IF k \in DOMAIN dict THEN dict[k] ELSE other[k]]

\* What the code does instead: a load adds to what the catalogs hold. It
\* succeeds exactly when no name of the definition is in the catalog it
\* goes to, and then the catalogs hold the old and the new entries;
\* otherwise it raises AlreadyRegisteredError, keeps the entries it added
\* before that, and replaces none.
C23_LoadAdds ==
    \A statistics_data \in Definitions :
        \A r \in Loads(StatState, statistics_data) :
            IF /\ DOMAIN statistics_data.primary \cap DOMAIN primary_statistics = {}
               /\ DOMAIN statistics_data.secondary \cap DOMAIN secondary_statistics = {}
            THEN /\ r.res.exc = ""
                 /\ r.st.primary_statistics
                       = Merged(primary_statistics, statistics_data.primary)
                 /\ r.st.secondary_statistics
                       = Merged(secondary_statistics, statistics_data.secondary)
            ELSE /\ r.res.exc = "AlreadyRegisteredError"
                 /\ \A name \in DOMAIN primary_statistics :
                       /\ name \in DOMAIN r.st.primary_statistics
                       /\ r.st.primary_statistics[name] = primary_statistics[name]
                 /\ \A name \in DOMAIN secondary_statistics :
                       /\ name \in DOMAIN r.st.secondary_statistics
                       /\ r.st.secondary_statistics[name] = secondary_statistics[name]

\* A second load of a definition that names a statistic raises
\* AlreadyRegisteredError.
C23_SecondLoadRaises ==
    \A statistics_data \in Definitions :
        \A r \in Loads(StatState, statistics_data) :
            r.res.exc = "" =>
                \A again \in Loads(r.st, statistics_data) :
                    again.res.exc = "AlreadyRegisteredError"

(* ---------------------------------------------------------------------- *)
(* C24                                                                     *)
(* ---------------------------------------------------------------------- *)

\* No influence of a secondary statistic names a secondary statistic.
NoneInfluencesAnother(st) ==
    \A statistic \in DOMAIN st.secondary_statistics :
        DOMAIN st.secondary_statistics[statistic] \cap DOMAIN st.secondary_statistics = {}

\* C24: when no secondary statistic has an influence on another secondary
\* statistic, what step stores is the same for every order of the
\* secondary statistics, and a second step stores the same values again.
C24_AsStated ==
    NoneInfluencesAnother(StatState) =>
        \A entity_order \in Orders(entity_extent(StatState)) :
            \A order \in Orders(DOMAIN secondary_statistics) :
                LET r == step(StatState, entity_order, order)
                IN  /\ \A other \in Orders(DOMAIN secondary_statistics) :
                          step(StatState, entity_order, other).st = r.st
                    /\ step(r.st, entity_order, order).st = r.st

\* Every influence of every secondary statistic is read from the primary
\* statistics: its name is in the primary catalog.
PrimaryOnly(st) == PrimaryInfluenced(st) = DOMAIN st.secondary_statistics

\* Where the order independence and the idempotence of C24 hold: when
\* every influence is read from the primary statistics.
C24_PrimaryOnly ==
    PrimaryOnly(StatState) =>
        \A entity_order \in Orders(entity_extent(StatState)) :
            \A order \in Orders(DOMAIN secondary_statistics) :
                LET r == step(StatState, entity_order, order)
                IN  /\ r.res.exc = ""
                    /\ \A other \in Orders(DOMAIN secondary_statistics) :
                          step(StatState, entity_order, other).st = r.st
                    /\ step(r.st, entity_order, order).st = r.st

\* The last part of C24, which the code keeps: step is a single pass. The
\* value a completed step stores for the i-th secondary statistic it
\* visits is the weighted sum over the values stored when it visits that
\* statistic, those of the statistics visited before it being new and
\* those of the statistics visited after it being old.
C24_SinglePass ==
    \A entity \in entity_extent(StatState) :
        \A order \in Orders(DOMAIN secondary_statistics) :
            LET r == step_statistics(StatState, entity, order, 1)
            IN  r.res.exc = "" =>
                    \A i \in 1..Len(order) :
                        LET before == step_statistics(StatState, entity,
                                                      SubSeq(order, 1, i - 1), 1).st
                        IN  char_stats(r.st, entity).secondary_stats[order[i]]
                                = WeightedSum(before, entity, order[i])

\* A step has completed that is not a fixed point: one secondary statistic
\* has an influence on another, and a second step in the same order would
\* store other values.
C24_NotAFixedPoint ==
    /\ op = "step" /\ result.exc = ""
    /\ ~NoneInfluencesAnother(StatState)
    /\ \E entity_order \in Orders(entity_extent(StatState)) :
          \E order \in Orders(DOMAIN secondary_statistics) :
              step(StatState, entity_order, order).st # StatState

(* ---------------------------------------------------------------------- *)
(* C25                                                                     *)
(* ---------------------------------------------------------------------- *)

PointsOf(st, entity) == char_stats(st, entity).stat_points

\* The stat_points of every entity with statistics are non-negative.
NonNegativePoints(st) == \A entity \in entity_extent(st) : PointsOf(st, entity) >= 0

\* What increase_statistic and decrease_statistic do to the stat_points of
\* the entity in the state st: an increase that changes the state was
\* charged a cost of at most the points the entity had, and a decrease
\* takes no points away.
PointsKept(st, entity, statistic) ==
    LET inc == increase_statistic(st, entity, statistic)
        dec == decrease_statistic(st, entity, statistic)
    IN  /\ inc.st # st =>
              LET old == char_stats(st, entity).primary_stats[statistic]
                  cost == get_stat_cost((old + 1) - default_stat_value)
              IN  /\ cost <= PointsOf(st, entity)
                  /\ PointsOf(inc.st, entity) = PointsOf(st, entity) - cost
        /\ NonNegativePoints(inc.st)
        /\ PointsOf(dec.st, entity) >= PointsOf(st, entity)
        /\ dec.st # st => PointsOf(dec.st, entity) > PointsOf(st, entity)

\* C25: the worlds start with non-negative stat_points, and the
\* stat_points are non-negative after any sequence of increase_statistic,
\* decrease_statistic and step calls: they are in every state reached; in
\* every such state an increase is applied only when its cost is at most
\* the stat_points, a decrease only adds points and a step leaves them
\* alone; and the same holds in the worlds with a statistic put at the
\* default or next to the maximum and the points at 0, one short of the
\* cost of the increase, or at that cost.
C25_PointsNonNegative ==
    /\ NonNegativePoints(StatState)
    /\ \A entity \in Entities : \A statistic \in StatisticNames :
          PointsKept(StatState, entity, statistic)
    /\ \A entity_order \in Orders(entity_extent(StatState)) :
          \A order \in Orders(DOMAIN secondary_statistics) :
              \A entity \in Entities :
                  PointsOf(step(StatState, entity_order, order).st, entity)
                      = PointsOf(StatState, entity)
    /\ calls = 0 =>
          \A entity \in entity_extent(StatState) :
              \A statistic \in DOMAIN primary_statistics :
                  \A value \in {min_stat_value, default_stat_value, max_stat_value - 1} :
                      LET cost == get_stat_cost((value + 1) - default_stat_value)
                      IN  \A points \in {0, cost - 1, cost} :
                              PointsKept(With(StatState, entity, statistic, value, points),
                                         entity, statistic)

\* After two writing calls, the last an increase_statistic, an entity that
\* started with stat_points has none left: the increase was charged all
\* the points it had.
C25_Witness ==
    /\ op = "increase_statistic" /\ calls = 2
    /\ \E world \in Worlds : \E entity \in entity_extent(StatState) :
          /\ PointsOf(world, entity) > 0
          /\ world.primary_statistics = primary_statistics
          /\ world.secondary_statistics = secondary_statistics
          /\ \A other \in Entities \ {entity} : world.entities[other] = entities[other]
          /\ PointsOf(StatState, entity) = 0
          /\ can_increase_statistic(StatState, entity, "strength").exc = ""
          /\ ~can_increase_statistic(StatState, entity, "strength").val

(* ---------------------------------------------------------------------- *)
(* C26                                                                     *)
(* ---------------------------------------------------------------------- *)

\* The dependencies of cls that a register of cls is to register.
UnregisteredDependencies(st, cls) ==
    { d \in DependenciesOf(cls) : needs_registration(st.attr, d) }

Assigned(value) == value # Unset
Named(value) == Assigned(value) /\ Truthy(value)

\* The positions in the method resolution order of cls, after cls itself,
\* of the classes whose own attribute was assigned, and of those whose own
\* attribute is a name.
AssignedAncestors(cls) ==
    { i \in 2..Len(getmro(cls)) : Assigned(attr[getmro(cls)[i]]) }
NamedAncestors(cls) ==
    { i \in 2..Len(getmro(cls)) : Named(attr[getmro(cls)[i]]) }

\* The own attribute of the nearest ancestor of cls among those at the
\* given positions, or None if there is none.
Nearest(cls, positions) ==
    IF positions = {} THEN None
    ELSE attr[getmro(cls)[CHOOSE i \in positions : \A j \in positions : i <= j]]

\* The class has an ancestor that is registered under the name the
\* ancestor reports.
SubtypeOfRegistered(cls) ==
    \E a \in Ancestors(cls) :
        Named(attr[a]) /\ resolve(RegistryOf(State, a), attr[a]) = a

\* C27 as stated: a class with no name of its own reports the name of its
\* nearest ancestor that has one, and a never-registered subtype of a
\* registered class reports a name.
C27_AsStated ==
    \A t \in Types :
        /\ ~Named(attr[t]) =>
              registered_as(attr, t) = Nearest(t, NamedAncestors(t))
        /\ (attr[t] = Unset /\ SubtypeOfRegistered(t)) =>
              Truthy(registered_as(attr, t))

\* C27, amended: a class whose own attribute was never assigned reports
\* the attribute of its nearest ancestor whose attribute was assigned,
\* which is a name, or None when that ancestor was unregistered, whatever
\* a farther ancestor holds; a class whose own attribute was assigned
\* reports its own, None after an unregister. When a class that was never
\* registered reports a name in this way, a register of a class that
\* lists it as a dependency does not register it: it is bound to no name
\* after the call and its own attribute is still unassigned.
C27_Fallthrough ==
    \A t \in Types :
        /\ registered_as(attr, t) =
              IF Assigned(attr[t]) THEN attr[t]
              ELSE Nearest(t, AssignedAncestors(t))
        /\ (attr[t] = Unset /\ Truthy(Nearest(t, AssignedAncestors(t)))) =>
              /\ Truthy(registered_as(attr, t))
              /\ NamesBoundTo(State, t) = {}
              /\ \A cls \in Types : \A name \in NamesOf(cls) : \A auto \in BOOLEAN :
                    t \in DependenciesOf(cls) =>
                        LET r == register(State, cls, name, auto, 1)
                        IN  /\ NamesBoundTo(r.st, t) = {}
                            /\ r.st.attr[t] = Unset

\* A register has just returned True for a class that is now bound and
\* lists as a dependency a class that was never registered, is bound to no
\* name, and reports the name of an ancestor.
C27_Witness ==
    /\ op = "register" /\ ret = "True"
    /\ \E cls \in Types : \E t \in DependenciesOf(cls) :
          /\ NamesBoundTo(State, cls) # {}
          /\ attr[t] = Unset
          /\ NamesBoundTo(State, t) = {}
          /\ Truthy(registered_as(attr, t))
          /\ registered_as(attr, t) = Nearest(t, AssignedAncestors(t))

(* ---------------------------------------------------------------------- *)
(* C28                                                                     *)
(* ---------------------------------------------------------------------- *)

\* Between the states st and after nothing differs but secondary_stats
\* mappings of entities that carry the component.
OnlySecondaryStatsDiffer(st, after) ==
    /\ after.primary_statistics = st.primary_statistics
    /\ after.secondary_statistics = st.secondary_statistics
    /\ DOMAIN after.entities = DOMAIN st.entities
    /\ \A entity \in DOMAIN st.entities :
          /\ after.entities[entity].active = st.entities[entity].active
          /\ after.entities[entity].primary_stats = st.entities[entity].primary_stats
          /\ after.entities[entity].stat_points = st.entities[entity].stat_points
          /\ ~st.entities[entity].active =>
                after.entities[entity] = st.entities[entity]

\* A step from the current state, completed or ended by an exception, in
\* any iteration order.
C28_Step ==
    \A entity_order \in Orders(entity_extent(StatState)) :
        \A order \in Orders(DOMAIN secondary_statistics) :
            OnlySecondaryStatsDiffer(StatState,
                                     step(StatState, entity_order, order).st)

\* A step call of a program.
C28_Frame ==
    op' = "step" =>
        OnlySecondaryStatsDiffer(StatState,
                                 [primary_statistics |-> primary_statistics',
                                  secondary_statistics |-> secondary_statistics',
                                  entities |-> entities'])

\* C28: step changes only the secondary_stats mappings of entities that
\* carry the CharacterStatistics component: the primary_stats and the
\* stat_points of every entity, all data of the entities without the
\* component, and the primary and secondary catalogs are after step what
\* they were before it.
C28_StepFrame == [](C28_Step) /\ [][C28_Frame]_vars

\* The first writing call of a program was a step that completed, and it
\* has stored secondary statistics: the entities differ from those of the
\* world the program started in.
C28_Witness ==
    /\ op = "step" /\ calls = 1 /\ result.exc = ""
    /\ \E world \in Worlds :
          /\ OnlySecondaryStatsDiffer(world, StatState)
          /\ world.entities # entities

====
